---- MODULE Spec2Model ----
(***************************************************************************)
(* Model of api_send_email_notification.py: the module-level configuration *)
(* (startup), get_linkedin_job_postings (connect, query, close), the        *)
(* report formatting (export_jobs_to_excel, build_job_postings_email_      *)
(* template), get_access_token, send_mail_via_graph and the                 *)
(* get_linkedin_jobs handler that chains them.                              *)
(*                                                                         *)
(* Values: Python None and SQL NULL are NULL; a key absent from a dict or  *)
(* a variable absent from the environment is Missing; text is a TLA+       *)
(* string, except CC_EMAIL_RECIPIENTS text, which is a sequence of         *)
(* one-character strings so that split(",") and strip() can be computed.   *)
(***************************************************************************)
EXTENDS Integers, Sequences, FiniteSets, TLC

\* ------------------------------------------------------------------ bounds
\* Most rows in public.karmafy_job in the query specification.
MaxRows == 6
\* Most rows in public.karmafy_job in the handler specification.
MaxJobs == 4
\* Longest CC_EMAIL_RECIPIENTS text in the configuration specification.
MaxCcLen == 2
\* Cap on the per-invocation stage counters (never reached by the code).
MaxAttempts == 3

\* ------------------------------------------------------------------ values
NULL == "<NULL>"
Missing == "<missing>"

\* Python truthiness of a text-or-None value: None and "" are falsy.
Falsy(x) == x = NULL \/ x = ""

\* dict.get(key, default): the default only when the key is absent.
Get(d, key, default) == IF d[key] = Missing THEN default ELSE d[key]

\* `x or default`
OrDefaultMut(x, default) == IF x = NULL THEN default ELSE x
OrDefault(x, default) == IF Falsy(x) THEN default ELSE x

\* os.getenv(name) / os.getenv(name, default); an environment maps each name to
\* [set |-> is the variable defined, val |-> its text].
Getenv(e, name, default) == IF e[name].set THEN e[name].val ELSE default

\* ------------------------------------------------------- configuration
DEFAULT_SENDER == "support@applywizz.com"
APP_NAME == "LinkedIn Job Postings Report"
TEST_EMAIL_RECIPIENT == "bhanutejathouti@gmail.com"

EnvNames == {"AZURE_TENANT_ID", "AZURE_CLIENT_ID", "AZURE_CLIENT_SECRET",
             "SENDER_EMAIL", "DATABASE_URL", "CC_EMAIL_RECIPIENTS"}

\* str.split(","): the pieces of s between commas (always at least one piece).
RECURSIVE SplitComma(_)
SplitComma(s) ==
    IF \A i \in 1..Len(s) : s[i] # ","
    THEN <<s>>
    ELSE LET k == CHOOSE i \in 1..Len(s) :
                     s[i] = "," /\ \A j \in 1..(i - 1) : s[j] # ","
         IN <<SubSeq(s, 1, k - 1)>> \o SplitComma(SubSeq(s, k + 1, Len(s)))

\* str.strip(): leading and trailing blanks removed.
RECURSIVE Strip(_)
Strip(s) ==
    IF s = <<>> THEN s
    ELSE IF s[1] = " " THEN Strip(Tail(s))
    ELSE IF s[Len(s)] = " " THEN Strip(SubSeq(s, 1, Len(s) - 1))
    ELSE s

\* [email.strip() for email in CC_RECIPIENTS_STR.split(",") if email.strip()]
RECURSIVE StripNonEmpty(_)
StripNonEmpty(pieces) ==
    IF pieces = <<>> THEN <<>>
    ELSE LET e == Strip(Head(pieces))
         IN (IF e # <<>> THEN <<e>> ELSE <<>>) \o StripNonEmpty(Tail(pieces))

ParseCcRecipients(e) ==
    StripNonEmpty(SplitComma(Getenv(e, "CC_EMAIL_RECIPIENTS", <<>>)))

\* not all([TENANT_ID, CLIENT_ID, CLIENT_SECRET])
AzureMissing(e) ==
    \/ Falsy(Getenv(e, "AZURE_TENANT_ID", NULL))
    \/ Falsy(Getenv(e, "AZURE_CLIENT_ID", NULL))
    \/ Falsy(Getenv(e, "AZURE_CLIENT_SECRET", NULL))

\* not DATABASE_URL
DatabaseUrlMissingMut(e) == Getenv(e, "DATABASE_URL", NULL) = NULL
DatabaseUrlMissing(e) == Falsy(Getenv(e, "DATABASE_URL", NULL))

\* ------------------------------------------------------------ database
\* "ingestedAt" is a timestamp in ticks; a day is TicksPerDay ticks long and
\* day d starts at tick d * TicksPerDay.
TicksPerDay == 2
\* The database's CURRENT_DATE and the application's datetime.now() date.
Today == 2
Yesterday == Today - 1
CURRENT_DATE == Today * TicksPerDay
\* strftime('%Y-%m-%d') of day d.
DateText == <<"2026-01-01", "2026-01-02", "2026-01-03">>
INTERVAL_1_DAY == TicksPerDay

\* The columns the query selects.
Columns == {"company", "title", "posted_by_profile", "poster_full_name",
            "url", "company_url", "source"}

\* Text order of ORDER BY (ascending, NULLS LAST as PostgreSQL sorts).
TextOrder == <<"", "p1", "p2", "t1", "t2", "t3">>
TextRank(x) ==
    IF x = NULL THEN Len(TextOrder) + 1
    ELSE CHOOSE i \in 1..Len(TextOrder) : TextOrder[i] = x

\* WHERE "ingestedAt" >= CURRENT_DATE AND "ingestedAt" < CURRENT_DATE + INTERVAL '1 day'
\*   AND posted_by_profile IS NOT NULL AND posted_by_profile <> ''
IngestedTodayWithProfile(r) ==
    /\ r.ingestedAt >= CURRENT_DATE
    /\ r.ingestedAt < CURRENT_DATE + INTERVAL_1_DAY
    /\ r.posted_by_profile # NULL
    /\ r.posted_by_profile # ""

\* COUNT(DISTINCT title) of one group: NULL titles are not counted.
CountDistinctTitle(tbl, profile) ==
    Cardinality({tbl[i].title : i \in {j \in 1..Len(tbl) :
                    /\ IngestedTodayWithProfile(tbl[j])
                    /\ tbl[j].posted_by_profile = profile
                    /\ tbl[j].title # NULL}})

\* HAVING COUNT(DISTINCT title) > 2
HavingMut(n) == n >= 2
Having(n) == n > 2

\* The subquery: SELECT posted_by_profile ... GROUP BY posted_by_profile HAVING ...
HighVolumeProfiles(tbl) ==
    {p \in {tbl[i].posted_by_profile : i \in {j \in 1..Len(tbl) :
                                         IngestedTodayWithProfile(tbl[j])}} :
        Having(CountDistinctTitle(tbl, p))}

\* The rows (by position in the table) the outer WHERE keeps.
SelectedRows(tbl) ==
    {i \in 1..Len(tbl) : /\ IngestedTodayWithProfile(tbl[i])
                         /\ tbl[i].posted_by_profile \in HighVolumeProfiles(tbl)}

\* dict(row) of a RealDictCursor row: the selected columns only.
RowDict(r) == [c \in Columns |-> r[c]]

\* ORDER BY posted_by_profile, title
OrderLe(a, b) ==
    \/ TextRank(a.posted_by_profile) < TextRank(b.posted_by_profile)
    \/ /\ a.posted_by_profile = b.posted_by_profile
       /\ TextRank(a.title) <= TextRank(b.title)

\* Every order the database may return the selected rows in: sorted by the
\* ORDER BY key, rows with equal keys in any order.
RECURSIVE OrderedResults(_, _)
OrderedResults(tbl, idxs) ==
    IF idxs = {} THEN {<<>>}
    ELSE LET firsts == {i \in idxs : \A j \in idxs : OrderLe(tbl[i], tbl[j])}
         IN UNION {{<<RowDict(tbl[i])>> \o s : s \in OrderedResults(tbl, idxs \ {i})}
                      : i \in firsts}

\* cursor.execute(query); cursor.fetchall(); [dict(row) for row in results].
\* target_date is accepted and defaulted by the function but the query text
\* never uses it.
QueryResults(tbl, target_date) == OrderedResults(tbl, SelectedRows(tbl))

\* ---------------------------------------------------------- formatting
ExcelColumns == {"#", "Company", "Job Title", "Posted By", "Profile URL",
                 "Job URL", "Company URL", "Source"}

\* One entry of excel_data in export_jobs_to_excel.
ExcelRow(idx, job) ==
    [c \in ExcelColumns |->
        CASE c = "#" -> idx
          [] c = "Company" -> OrDefault(Get(job, "company", "N/A"), "N/A")
          [] c = "Job Title" -> OrDefault(Get(job, "title", "N/A"), "N/A")
          [] c = "Posted By" -> OrDefault(Get(job, "poster_full_name", "N/A"), "N/A")
          [] c = "Profile URL" -> OrDefault(Get(job, "posted_by_profile", ""), "")
          [] c = "Job URL" -> OrDefault(Get(job, "url", ""), "")
          [] c = "Company URL" -> OrDefault(Get(job, "company_url", ""), "")
          [] c = "Source" -> OrDefault(Get(job, "source", "N/A"), "N/A")]

\* excel_data: one row per job, numbered from 1.
ExcelData(jobs_data) == [i \in 1..Len(jobs_data) |-> ExcelRow(i, jobs_data[i])]

\* One <tr> of jobs_rows in build_job_postings_email_template: the values
\* interpolated into it.
TemplateRow(idx, job) ==
    [idx |-> idx,
     company |-> OrDefault(Get(job, "company", "N/A"), "N/A"),
     title |-> OrDefault(Get(job, "title", "N/A"), "N/A"),
     url |-> OrDefault(Get(job, "url", "#"), "#"),
     company_url |-> OrDefault(Get(job, "company_url", "#"), "#"),
     poster_full_name |-> OrDefault(Get(job, "poster_full_name", "N/A"), "N/A"),
     posted_by_profile |-> OrDefault(Get(job, "posted_by_profile", "#"), "#"),
     source |-> OrDefault(Get(job, "source", "N/A"), "N/A")]

\* jobs_rows: one <tr> per job, numbered from 1.
JobsRows(jobs_data) == [i \in 1..Len(jobs_data) |-> TemplateRow(i, jobs_data[i])]

\* The HTML document: the count it states ({len(jobs_data)} everywhere it is
\* stated), the table rows and the attachment name it shows.
build_job_postings_email_template(app_name, jobs_data, excel_filepath) ==
    [app_name |-> app_name,
     stated_count |-> Len(jobs_data),
     rows |-> JobsRows(jobs_data),
     excel_name |-> IF excel_filepath # NULL THEN excel_filepath ELSE "Excel Report"]

\* f"{APP_NAME}: {len(job_postings)} Job(s) from High-Volume Posters - {date}"
Subject(jobs_data) ==
    [app_name |-> APP_NAME, count |-> Len(jobs_data), date |-> DateText[Today]]

\* ------------------------------------------------------------ mail API
\* 4 * 1024 * 1024: the size above which send_mail_via_graph warns.
ATTACHMENT_LIMIT == 4 * 1024 * 1024

\* len(file_content) > 4 * 1024 * 1024
OverLimitMut(size) == size >= ATTACHMENT_LIMIT
OverLimit(size) == size > ATTACHMENT_LIMIT

SPREADSHEET_MIME == "application/vnd.openxmlformats-officedocument.spreadsheetml.sheet"
EXCEL_PATH == "linkedin_jobs_<timestamp>.xlsx"

\* base64.b64encode(file_content).decode('ascii') of a file's bytes.
B64(data) == <<"base64", data>>

\* `if not access_token` after json_data.get("access_token"): the token is
\* usable when the field is present, not None and not empty.
TokenUsableMut(tok) == tok # Missing /\ tok # NULL
TokenUsable(tok) == tok # Missing /\ ~Falsy(tok)

\* payload["message"] before the attachment branch; ccRecipients is set only
\* `if cc and len(cc) > 0`.
MessageMut(to, subject, html, cc) ==
    [subject |-> subject, body |-> html,
     toRecipients |-> <<to>>,
     has_cc |-> FALSE, ccRecipients |-> <<>>,
     attachments |-> <<>>]
Message(to, subject, html, cc) ==
    [subject |-> subject, body |-> html,
     toRecipients |-> <<to>>,
     has_cc |-> (cc # <<>>), ccRecipients |-> cc,
     attachments |-> <<>>]

\* The fileAttachment entry built from the file that was read.
FileAttachment(path, file) ==
    [name |-> path, contentType |-> SPREADSHEET_MIME,
     contentBytes |-> B64(file.data)]

\* --------------------------------------------------------------- state
VARIABLES
    pc,             \* where the process is: boot, startup_failed, idle, a stage, done, error
    env,            \* the environment variables (after load_dotenv)
    app,            \* the FastAPI application object and its registered routes
    config,         \* the module-level configuration values
    table,          \* the rows of public.karmafy_job
    caller,         \* who called get_linkedin_job_postings: the handler or a direct call
    target_date,    \* the target_date argument/local of get_linkedin_job_postings
    conn_open,      \* number of open database connections
    job_postings,   \* the list the query returned
    excel_file,     \* the spreadsheet file export_jobs_to_excel wrote
    html,           \* the HTML body and the subject built by the handler
    token_response, \* the token endpoint's response in this invocation
    access_token,   \* the local access_token of send_mail_via_graph
    payload,        \* the message send_mail_via_graph has built
    sent,           \* the send-mail requests issued in this invocation
    attempts,       \* how often each stage was started in this invocation
    log,            \* the warnings printed in this invocation
    failed,         \* the stages that failed in this invocation
    response        \* what the caller received

vars == <<pc, env, app, config, table, caller, target_date, conn_open,
          job_postings, excel_file, html, token_response, access_token,
          payload, sent, attempts, log, failed, response>>

NoValue == [none |-> TRUE]
NoAttempts == [connect |-> 0, query |-> 0, export |-> 0, token |-> 0, send |-> 0]
NoApp == [created |-> FALSE, routes |-> {}]

\* The locals of one invocation before it has run.
FreshInvocation ==
    /\ job_postings = <<>>
    /\ excel_file = NoValue
    /\ html = NoValue
    /\ token_response = NoValue
    /\ access_token = NULL
    /\ payload = NoValue
    /\ sent = <<>>
    /\ attempts = NoAttempts
    /\ log = {}
    /\ failed = {}
    /\ response = NoValue

Fresh ==
    /\ job_postings' = <<>>
    /\ excel_file' = NoValue
    /\ html' = NoValue
    /\ token_response' = NoValue
    /\ access_token' = NULL
    /\ payload' = NoValue
    /\ sent' = <<>>
    /\ attempts' = NoAttempts
    /\ log' = {}
    /\ failed' = {}
    /\ response' = NoValue

\* An exception that reaches the caller: HTTPException(500, detail) or any
\* other exception, which the framework also answers with status 500.
Raised(stage, exception, detail) ==
    [kind |-> "error", stage |-> stage, exception |-> exception,
     status_code |-> 500, detail |-> detail]

Bump(stage) == [attempts EXCEPT ![stage] = @ + 1]

\* ------------------------------------------------------------- startup
\* Module level, lines 20-60: read the environment, validate, create the app.
Startup ==
    /\ pc = "boot"
    /\ UNCHANGED <<env, table, caller, target_date, conn_open, job_postings,
                   excel_file, html, token_response, access_token, payload,
                   sent, attempts, log, failed>>
    /\ IF AzureMissing(env)
       THEN /\ pc' = "startup_failed"
            /\ response' = Raised("startup", "ValueError",
                                  "Missing required Azure AD credentials")
            /\ UNCHANGED <<app, config>>
       ELSE IF DatabaseUrlMissing(env)
       THEN /\ pc' = "startup_failed"
            /\ response' = Raised("startup", "ValueError",
                                  "Missing required DATABASE_URL environment variable")
            /\ UNCHANGED <<app, config>>
       ELSE \E mkdir_ok \in BOOLEAN :
            IF ~mkdir_ok
            THEN /\ pc' = "startup_failed"
                 /\ response' = Raised("startup", "OSError", "EXPORTS_DIR.mkdir")
                 /\ UNCHANGED <<app, config>>
            ELSE /\ pc' = "idle"
                 /\ config' = [TENANT_ID |-> Getenv(env, "AZURE_TENANT_ID", NULL),
                               CLIENT_ID |-> Getenv(env, "AZURE_CLIENT_ID", NULL),
                               CLIENT_SECRET |-> Getenv(env, "AZURE_CLIENT_SECRET", NULL),
                               SENDER_EMAIL |-> Getenv(env, "SENDER_EMAIL", DEFAULT_SENDER),
                               DATABASE_URL |-> Getenv(env, "DATABASE_URL", NULL),
                               CC_EMAIL_RECIPIENTS |-> ParseCcRecipients(env)]
                 /\ app' = [created |-> TRUE,
                            routes |-> {"POST /get-linkedin-jobs", "GET /"}]
                 /\ UNCHANGED response

\* ------------------------------------------- get_linkedin_job_postings
\* The handler's call get_linkedin_job_postings(): a request to
\* POST /get-linkedin-jobs, or the __main__ block calling get_linkedin_jobs().
Invoke ==
    /\ pc \in {"idle", "done", "error", "returned"}
    /\ "POST /get-linkedin-jobs" \in app.routes
    /\ pc' = "connect"
    /\ caller' = "handler"
    /\ target_date' = NULL
    /\ Fresh
    /\ UNCHANGED <<env, app, config, table, conn_open>>

\* A direct call get_linkedin_job_postings(target_date).
CallDirect(td) ==
    /\ pc \in {"idle", "done", "error", "returned"}
    /\ app.created
    /\ pc' = "connect"
    /\ caller' = "direct"
    /\ Fresh
    /\ target_date' = td
    /\ UNCHANGED <<env, app, config, table, conn_open>>

\* conn = get_db_connection(): psycopg2.connect succeeds, or any exception
\* becomes HTTPException(500, "Database connection failed").
Connect ==
    /\ pc = "connect"
    /\ attempts.connect < MaxAttempts
    /\ attempts' = Bump("connect")
    /\ \E ok \in BOOLEAN :
          IF ok
          THEN /\ conn_open' = conn_open + 1
               /\ pc' = "query"
               /\ UNCHANGED <<response, failed>>
          ELSE /\ pc' = "error"
               /\ failed' = failed \cup {"connect"}
               /\ response' = Raised("connect", "HTTPException",
                                     "Database connection failed")
               /\ UNCHANGED conn_open
    /\ UNCHANGED <<env, app, config, table, caller, target_date, job_postings,
                   excel_file, html, token_response, access_token, payload,
                   sent, log>>

\* finally: conn.close(), on every way out of the try block.
CloseMut(n, outcome) == IF outcome = "ok" THEN n - 1 ELSE n
Close(n, outcome) == n - 1

\* The try block of get_linkedin_job_postings with its except and finally:
\* default target_date, execute the query and fetch, or fail with
\* psycopg2.Error (HTTPException "Database query failed") or with another
\* exception, which propagates unchanged; the connection is closed last.
RunQuery ==
    /\ pc = "query"
    /\ attempts.query < MaxAttempts
    /\ attempts' = Bump("query")
    /\ target_date' = IF target_date = NULL THEN DateText[Today] ELSE target_date
    /\ \E outcome \in {"ok", "psycopg2.Error", "Exception"} :
          /\ conn_open' = Close(conn_open, outcome)
          /\ CASE outcome = "ok" ->
                    /\ job_postings' \in QueryResults(table, target_date')
                    /\ pc' = IF caller = "handler" THEN "check" ELSE "returned"
                    /\ UNCHANGED <<response, failed>>
               [] outcome = "psycopg2.Error" ->
                    /\ pc' = "error"
                    /\ failed' = failed \cup {"query"}
                    /\ response' = Raised("query", "HTTPException",
                                          "Database query failed")
                    /\ UNCHANGED job_postings
               [] outcome = "Exception" ->
                    /\ pc' = "error"
                    /\ failed' = failed \cup {"query"}
                    /\ response' = Raised("query", "Exception", "cursor")
                    /\ UNCHANGED job_postings
    /\ UNCHANGED <<env, app, config, table, caller, excel_file, html,
                   token_response, access_token, payload, sent, log>>

\* ------------------------------------------------------------- handler
\* `not job_postings`
NoJobsMut(jobs) == FALSE
NoJobs(jobs) == jobs = <<>>

\* `if not job_postings: return {...}` of get_linkedin_jobs.
CheckEmpty ==
    /\ pc = "check"
    /\ IF NoJobs(job_postings)
       THEN /\ pc' = "done"
            /\ response' = [kind |-> "success", success |-> TRUE,
                            jobs_count |-> 0, email_sent |-> FALSE]
       ELSE /\ pc' = "export"
            /\ UNCHANGED response
    /\ UNCHANGED <<env, app, config, table, caller, target_date, conn_open,
                   job_postings, excel_file, html, token_response,
                   access_token, payload, sent, attempts, log, failed>>

\* The sizes the written spreadsheet may have: around the 4MB limit.
FileSizes == {1024, ATTACHMENT_LIMIT - 1, ATTACHMENT_LIMIT, ATTACHMENT_LIMIT + 1}

\* excel_filepath = export_jobs_to_excel(job_postings): the file is written
\* with the rows of excel_data, or writing it raises.
Export ==
    /\ pc = "export"
    /\ attempts.export < MaxAttempts
    /\ attempts' = Bump("export")
    /\ \/ /\ \E size \in FileSizes :
                excel_file' = [path |-> EXCEL_PATH, size |-> size,
                               data |-> ExcelData(job_postings)]
          /\ pc' = "template"
          /\ UNCHANGED <<response, failed>>
       \/ /\ pc' = "error"
          /\ failed' = failed \cup {"export"}
          /\ response' = Raised("export", "Exception", "ExcelWriter")
          /\ UNCHANGED excel_file
    /\ UNCHANGED <<env, app, config, table, caller, target_date, conn_open,
                   job_postings, html, token_response, access_token, payload,
                   sent, log>>

\* subject = f"..."; html = build_job_postings_email_template(...)
Template ==
    /\ pc = "template"
    /\ html' = [subject |-> Subject(job_postings),
                content |-> build_job_postings_email_template(
                                APP_NAME, job_postings, excel_file.path)]
    /\ pc' = "token"
    /\ UNCHANGED <<env, app, config, table, caller, target_date, conn_open,
                   job_postings, excel_file, token_response, access_token,
                   payload, sent, attempts, log, failed, response>>

\* ------------------------------------------------- send_mail_via_graph
\* What the token endpoint may answer: res.ok and the body's access_token.
TokenValues == {Missing, NULL, "", "tokA", "tokB"}
TokenResponses == [ok : BOOLEAN, access_token : TokenValues]

\* access_token = get_access_token(): one POST to the token endpoint.
Token ==
    /\ pc = "token"
    /\ attempts.token < MaxAttempts
    /\ attempts' = Bump("token")
    /\ \/ \E r \in TokenResponses :
            /\ token_response' = r
            /\ IF ~r.ok
               THEN /\ pc' = "error"
                    /\ failed' = failed \cup {"token"}
                    /\ response' = Raised("token", "HTTPException",
                                          "Failed to get access token from Azure AD")
                    /\ UNCHANGED access_token
               ELSE IF ~TokenUsable(r.access_token)
               THEN /\ pc' = "error"
                    /\ failed' = failed \cup {"token"}
                    /\ response' = Raised("token", "HTTPException",
                                          "No access token received from Azure AD")
                    /\ UNCHANGED access_token
               ELSE /\ pc' = "payload"
                    /\ access_token' = r.access_token
                    /\ UNCHANGED <<response, failed>>
       \/ \* requests.post raises, or res.json() raises on a body that is not JSON
          /\ token_response' = [ok |-> FALSE, access_token |-> Missing]
          /\ pc' = "error"
          /\ failed' = failed \cup {"token"}
          /\ response' = Raised("token", "Exception", "requests")
          /\ UNCHANGED access_token
    /\ UNCHANGED <<env, app, config, table, caller, target_date, conn_open,
                   job_postings, excel_file, html, payload, sent, log>>

\* Lines 179-236: build the payload for to=TEST_EMAIL_RECIPIENT,
\* cc=CC_EMAIL_RECIPIENTS, attachment_path=excel_filepath. The file at the
\* path is then present, gone (os.path.exists is false) or cannot be read.
BuildPayload ==
    /\ pc = "payload"
    /\ LET msg == Message(TEST_EMAIL_RECIPIENT, html.subject, html.content,
                          config.CC_EMAIL_RECIPIENTS)
       IN \E fs \in {"present", "missing", "unreadable"} :
            CASE fs = "present" ->
                    /\ payload' = [msg EXCEPT !.attachments =
                                      <<FileAttachment(excel_file.path, excel_file)>>]
                    /\ log' = IF OverLimit(excel_file.size)
                              THEN log \cup {"size_warning"} ELSE log
                    /\ pc' = "post"
                    /\ UNCHANGED <<response, failed>>
              [] fs = "missing" ->
                    /\ payload' = msg
                    /\ log' = log \cup {"attachment_not_found"}
                    /\ pc' = "post"
                    /\ UNCHANGED <<response, failed>>
              [] fs = "unreadable" ->
                    /\ log' = log \cup {"error_adding_attachment"}
                    /\ pc' = "error"
                    /\ failed' = failed \cup {"attach"}
                    /\ response' = Raised("attach", "Exception", "open")
                    /\ UNCHANGED payload
    /\ UNCHANGED <<env, app, config, table, caller, target_date, conn_open,
                   job_postings, excel_file, html, token_response,
                   access_token, sent, attempts>>

\* Where a send that did not return success leaves the invocation: the
\* HTTPException is raised to the caller.
OnSendFailureMut == "post"
OnSendFailureSwallowed == "respond"
OnSendFailure == "error"

\* res = requests.post(url, json=payload, headers=headers) and its check.
Post ==
    /\ pc = "post"
    /\ attempts.send < MaxAttempts
    /\ attempts' = Bump("send")
    /\ sent' = Append(sent, [sender |-> config.SENDER_EMAIL,
                             bearer |-> access_token,
                             message |-> payload,
                             saveToSentItems |-> TRUE])
    /\ \E outcome \in {"ok", "not_ok", "Exception"} :
         CASE outcome = "ok" ->
                 /\ pc' = "respond"
                 /\ UNCHANGED <<response, failed>>
           [] outcome = "not_ok" ->
                 /\ pc' = OnSendFailure
                 /\ failed' = failed \cup {"send"}
                 /\ response' = Raised("send", "HTTPException",
                                       "Failed to send email via Microsoft Graph")
           [] outcome = "Exception" ->
                 /\ pc' = "error"
                 /\ failed' = failed \cup {"send"}
                 /\ response' = Raised("send", "Exception", "requests")
    /\ UNCHANGED <<env, app, config, table, caller, target_date, conn_open,
                   job_postings, excel_file, html, token_response,
                   access_token, payload, log>>

\* Lines 592-607: the success response after send_mail_via_graph returned.
Respond ==
    /\ pc = "respond"
    /\ response' = [kind |-> "success", success |-> TRUE,
                    jobs_count |-> Len(job_postings),
                    jobs |-> job_postings,
                    email_sent |-> TRUE,
                    email_sent_to |-> TEST_EMAIL_RECIPIENT,
                    excel_file |-> excel_file.path]
    /\ pc' = "done"
    /\ UNCHANGED <<env, app, config, table, caller, target_date, conn_open,
                   job_postings, excel_file, html, token_response,
                   access_token, payload, sent, attempts, log, failed>>

\* A direct call of the two formatting functions on a one-record list:
\* export_jobs_to_excel's excel_data and build_job_postings_email_template.
JobDicts == [Columns -> {Missing, NULL, "", "v"}]

FormatDirect ==
    /\ pc = "idle"
    /\ app.created
    /\ \E job \in JobDicts :
          /\ job_postings' = <<job>>
          /\ excel_file' = [path |-> EXCEL_PATH, size |-> 1024,
                            data |-> ExcelData(<<job>>)]
          /\ html' = [subject |-> Subject(<<job>>),
                      content |-> build_job_postings_email_template(
                                      APP_NAME, <<job>>, EXCEL_PATH)]
    /\ caller' = "direct"
    /\ pc' = "formatted"
    /\ UNCHANGED <<env, app, config, table, target_date, conn_open,
                   token_response, access_token, payload, sent, attempts,
                   log, failed, response>>

\* ------------------------------------------------------- initial states
EnvSet(v) == [set |-> TRUE, val |-> v]
EnvUnset == [set |-> FALSE, val |-> ""]
CcUnset == [set |-> FALSE, val |-> <<>>]

\* An environment with every required value set.
GoodEnv(cc) ==
    [n \in EnvNames |->
        CASE n = "CC_EMAIL_RECIPIENTS" -> cc
          [] n = "SENDER_EMAIL" -> EnvUnset
          [] OTHER -> EnvSet("v")]

\* The environments of the handler specification.
HandlerEnvs ==
    {GoodEnv(CcUnset),
     GoodEnv(EnvSet(<<"a", ",", " ", "b">>)),
     [GoodEnv(CcUnset) EXCEPT !["DATABASE_URL"] = EnvUnset],
     [GoodEnv(CcUnset) EXCEPT !["AZURE_CLIENT_SECRET"] = EnvSet("")]}

\* Texts of at most n characters over comma, blank and a letter.
RECURSIVE CcTexts(_)
CcTexts(n) ==
    IF n = 0 THEN {<<>>}
    ELSE CcTexts(n - 1) \cup
         {Append(s, c) : s \in {t \in CcTexts(n - 1) : Len(t) = n - 1},
                         c \in {",", " ", "a"}}

\* Every combination of unset / empty / set environment values.
ConfigEnvs ==
    {[n \in EnvNames |-> IF n = "CC_EMAIL_RECIPIENTS" THEN cc ELSE f[n]] :
        f \in [EnvNames \ {"CC_EMAIL_RECIPIENTS"} ->
                  {EnvUnset, EnvSet(""), EnvSet("v")}],
        cc \in {CcUnset} \cup {EnvSet(t) : t \in CcTexts(MaxCcLen)}}

\* A row of public.karmafy_job.
JobRow(profile, title, at, company) ==
    [company |-> company, title |-> title, posted_by_profile |-> profile,
     poster_full_name |-> "n1", url |-> "u1", company_url |-> NULL,
     source |-> "linkedin", ingestedAt |-> at]

\* The rows the tables of the query specification are made of.
QueryRowKinds ==
    <<JobRow("p1", "t1", CURRENT_DATE, "c1"),
      JobRow("p1", "t1", CURRENT_DATE + 1, "c2"),
      JobRow("p1", "t2", CURRENT_DATE, "c1"),
      JobRow("p1", "t3", CURRENT_DATE + INTERVAL_1_DAY - 1, "c1"),
      JobRow("p1", NULL, CURRENT_DATE, "c1"),
      JobRow("p2", "t1", CURRENT_DATE, "c1"),
      JobRow("p2", "t2", CURRENT_DATE, "c1"),
      JobRow("p2", "t3", CURRENT_DATE, "c1"),
      JobRow(NULL, "t1", CURRENT_DATE, "c1"),
      JobRow("", "t1", CURRENT_DATE, "c1"),
      JobRow("p1", "t1", CURRENT_DATE - 1, "c1"),
      JobRow("p1", "t2", CURRENT_DATE - TicksPerDay, "c1"),
      JobRow("p1", "t3", CURRENT_DATE - 1, "c1")>>

\* The rows the tables of the handler specification are made of.
HandlerRowKinds ==
    <<JobRow("p1", "t1", CURRENT_DATE, "c1"),
      JobRow("p1", "t2", CURRENT_DATE, NULL),
      JobRow("p1", "t3", CURRENT_DATE, "c1"),
      JobRow("p1", "t3", CURRENT_DATE - 1, "c1")>>

\* Tables as multisets of rows: the sequences of n row kinds, each at most
\* kind k, in non-decreasing order of kind.
RECURSIVE KindSeqs(_, _)
KindSeqs(n, k) ==
    IF n = 0 THEN {<<>>}
    ELSE UNION {{Append(s, j) : s \in KindSeqs(n - 1, j)} : j \in 1..k}

Tables(kinds, max) ==
    {[i \in 1..Len(s) |-> kinds[s[i]]] :
        s \in UNION {KindSeqs(n, Len(kinds)) : n \in 0..max}}

InitWith(envs, tables) ==
    /\ pc = "boot"
    /\ env \in envs
    /\ app = NoApp
    /\ config = NoValue
    /\ table \in tables
    /\ caller = "none"
    /\ conn_open = 0
    /\ target_date = NULL
    /\ FreshInvocation

\* The handler: a few environments, every table of at most MaxJobs rows.
Init == InitWith(HandlerEnvs, Tables(HandlerRowKinds, MaxJobs))

Next ==
    \/ Startup
    \/ Invoke
    \/ Connect
    \/ RunQuery
    \/ CheckEmpty
    \/ Export
    \/ Template
    \/ Token
    \/ BuildPayload
    \/ Post
    \/ Respond

Spec == Init /\ [][Next]_vars

\* The configuration: every environment, one table with a report to send.
InitConfig ==
    InitWith(ConfigEnvs, {<<HandlerRowKinds[1], HandlerRowKinds[2], HandlerRowKinds[3]>>})

SpecConfig == InitConfig /\ [][Next]_vars

\* The query: one environment, every table of at most MaxRows rows, called
\* with and without a target date.
TargetDates == {NULL, DateText[Yesterday], DateText[Today]}

InitQuery == InitWith({GoodEnv(CcUnset)}, Tables(QueryRowKinds, MaxRows))

NextQuery ==
    \/ Startup
    \/ \E td \in TargetDates : CallDirect(td)
    \/ Connect
    \/ RunQuery

SpecQuery == InitQuery /\ [][NextQuery]_vars

\* The formatting functions on every one-record list.
InitFormat == InitWith({GoodEnv(CcUnset)}, {<<>>})

NextFormat ==
    \/ Startup
    \/ FormatDirect

SpecFormat == InitFormat /\ [][NextFormat]_vars

\* ================================================================ claims
\* Helpers of the statements below.
HandlerRuns == caller = "handler"
IsError == "kind" \in DOMAIN response /\ response.kind = "error"
IsSuccess == "kind" \in DOMAIN response /\ response.kind = "success"
FailedAt(stage) == pc = "error" /\ IsError /\ response.stage = stage

\* The handler's query has returned its list in this invocation.
QueryReturned ==
    /\ HandlerRuns
    /\ \/ pc \in {"check", "export", "template", "token", "payload", "post",
                  "respond", "done"}
       \/ pc = "error" /\ IsError /\ response.stage \notin {"connect", "query"}

\* The CC recipients of a message as the mail API reads them: none when the
\* ccRecipients field is absent.
CcOf(message) == IF message.has_cc THEN message.ccRecipients ELSE <<>>

\* C1: when the handler's query returns an empty list, the invocation ends
\* with the success response jobs_count = 0, email_sent = false, and no token
\* request and no send-mail request is issued in it.
C1_EmptyQueryNoMail ==
    (QueryReturned /\ job_postings = <<>>) =>
        /\ pc \in {"check", "done"}
        /\ attempts.export = 0 /\ attempts.token = 0 /\ attempts.send = 0
        /\ token_response = NoValue
        /\ sent = <<>>
        /\ pc = "done" => /\ IsSuccess
                          /\ response.success = TRUE
                          /\ response.jobs_count = 0
                          /\ response.email_sent = FALSE

C1_Witness ==
    /\ HandlerRuns /\ pc = "done" /\ job_postings = <<>>
    /\ IsSuccess /\ response.jobs_count = 0 /\ attempts.query = 1

\* What C2 says of one send-mail request for a query result of n rows: one
\* to-recipient, the configured one; the configured CC list; a body whose
\* stated count and number of table rows are n.
C2_MessageMatches(req, n) ==
    /\ req.message.toRecipients = <<TEST_EMAIL_RECIPIENT>>
    /\ CcOf(req.message) = config.CC_EMAIL_RECIPIENTS
    /\ req.message.body.stated_count = n
    /\ Len(req.message.body.rows) = n

\* C2 as claimed: every invocation whose query returns N > 0 rows makes
\* exactly one send-mail call, with one to-recipient, the configured CC list
\* and a body stating and listing N rows.
C2_Original ==
    (QueryReturned /\ job_postings # <<>> /\ pc \in {"done", "error"}) =>
        /\ Len(sent) = 1
        /\ C2_MessageMatches(sent[1], Len(job_postings))

\* C2 as amended: such an invocation makes at most one send-mail call, and
\* exactly one once the export, the token request and the attachment read
\* have succeeded (an invocation that failed before the send stage made
\* none); every call's message has one to-recipient, the configured one, the
\* configured CC list and a body stating and listing N rows.
C2_OneSendWhenReached ==
    (QueryReturned /\ job_postings # <<>>) =>
        /\ Len(sent) <= 1
        /\ Len(sent) = 1 <=> (pc \in {"respond", "done"} \/ FailedAt("send"))
        /\ pc = "done" => IsSuccess /\ response.email_sent
        /\ \A i \in 1..Len(sent) : C2_MessageMatches(sent[i], Len(job_postings))

C2_Witness ==
    /\ HandlerRuns /\ pc = "done" /\ Len(job_postings) = 4 /\ Len(sent) = 1
    /\ Len(sent[1].message.ccRecipients) = 2
    /\ sent[1].message.body.stated_count = 4

\* C3: a connection opened by get_linkedin_job_postings is closed before the
\* function returns or raises, on every way out: a connection is open only
\* while the query runs, never during export, token request or send, and
\* never when the invocation has ended.
C3_ConnectionScoped == conn_open = IF pc = "query" THEN 1 ELSE 0

C3_Witness ==
    /\ FailedAt("query") /\ response.exception = "Exception"
    /\ attempts.connect = 1 /\ conn_open = 0

\* The stages of one invocation in the order the handler runs them.
StageOrder == <<"connect", "query", "export", "token", "attach", "send">>
StageIndex(stage) == CHOOSE i \in 1..Len(StageOrder) : StageOrder[i] = stage
Counted == {"connect", "query", "export", "token", "send"}

\* C4: in one invocation each stage is attempted at most once, and once a
\* stage has failed the invocation has ended with an error and no later stage
\* was started; a failed send is not retried.
C4_NoRetryAbortOnFailure ==
    HandlerRuns =>
        /\ \A stage \in Counted : attempts[stage] <= 1
        /\ IsError =>
              /\ pc = "error"
              /\ response.status_code = 500
              /\ \A stage \in Counted :
                    StageIndex(stage) > StageIndex(response.stage)
                        => attempts[stage] = 0
              /\ response.stage # "send" => sent = <<>>

C4_Witness ==
    /\ HandlerRuns /\ FailedAt("send") /\ attempts.send = 1 /\ Len(sent) = 1

\* C5: a send-mail request is issued only after the token request of the
\* same invocation returned a successful response with a non-empty
\* access_token, and carries exactly that token; an unsuccessful response or
\* one without a usable access_token ends the invocation with an error at
\* the token stage and no send-mail request.
C5_SendOnlyWithFreshToken ==
    HandlerRuns =>
        /\ \A i \in 1..Len(sent) :
              /\ attempts.token = 1
              /\ token_response # NoValue
              /\ token_response.ok
              /\ token_response.access_token \notin {Missing, NULL, ""}
              /\ sent[i].bearer = token_response.access_token
        /\ (/\ token_response # NoValue
            /\ \/ ~token_response.ok
               \/ token_response.access_token \in {Missing, NULL, ""})
              => FailedAt("token") /\ sent = <<>> /\ attempts.send = 0

C5_Witness ==
    /\ HandlerRuns /\ Len(sent) = 1 /\ sent[1].bearer = "tokB"
    /\ token_response.access_token = "tokB"

\* The required environment values, and one of them being unset or empty.
Required == {"AZURE_TENANT_ID", "AZURE_CLIENT_ID", "AZURE_CLIENT_SECRET",
             "DATABASE_URL"}
RequiredMissing == \E n \in Required : ~env[n].set \/ env[n].val = ""

\* C6: with a required environment value unset or empty, startup fails with
\* an error before the application object exists and before any endpoint is
\* registered, and no database connection, token request or send-mail
\* request is ever made; the sender address and the CC list are defaulted
\* and never make startup fail.
C6_StartupFailsWithoutRequiredConfig ==
    /\ RequiredMissing =>
          /\ pc \in {"boot", "startup_failed"}
          /\ ~app.created /\ app.routes = {}
          /\ conn_open = 0 /\ attempts = NoAttempts
          /\ token_response = NoValue /\ sent = <<>>
          /\ pc = "startup_failed" => IsError /\ response.exception = "ValueError"
    /\ (pc = "startup_failed" /\ ~RequiredMissing) => response.exception = "OSError"
    /\ app.created =>
          /\ ~RequiredMissing
          /\ ~env["SENDER_EMAIL"].set => config.SENDER_EMAIL = DEFAULT_SENDER
          /\ env["SENDER_EMAIL"].set => config.SENDER_EMAIL = env["SENDER_EMAIL"].val
          /\ ~env["CC_EMAIL_RECIPIENTS"].set => config.CC_EMAIL_RECIPIENTS = <<>>
          /\ \A i \in 1..Len(config.CC_EMAIL_RECIPIENTS) :
                LET e == config.CC_EMAIL_RECIPIENTS[i]
                IN /\ e # <<>> /\ e[1] # " " /\ e[Len(e)] # " "
                   /\ \A k \in 1..Len(e) : e[k] # ","

C6_Witness ==
    /\ pc = "startup_failed"
    /\ \A n \in Required \ {"DATABASE_URL"} : env[n].set /\ env[n].val = "v"
    /\ env["DATABASE_URL"].set /\ env["DATABASE_URL"].val = ""
    /\ env["SENDER_EMAIL"].set /\ env["SENDER_EMAIL"].val = ""
    /\ env["CC_EMAIL_RECIPIENTS"].val = <<",", " ">>

\* The jobs of a day: the rows ingested on that day whose poster profile is
\* neither NULL nor empty.
OnDay(r, day) ==
    /\ r.ingestedAt >= day * TicksPerDay
    /\ r.ingestedAt < (day + 1) * TicksPerDay
HasProfile(r) == r.posted_by_profile \notin {NULL, ""}
JobsOf(tbl, profile, day) ==
    {i \in 1..Len(tbl) : /\ OnDay(tbl[i], day) /\ HasProfile(tbl[i])
                         /\ tbl[i].posted_by_profile = profile}
TitlesOf(tbl, profile, day) ==
    {tbl[i].title : i \in JobsOf(tbl, profile, day)} \ {NULL}

\* The jobs of the posters with more than 2 jobs on the day.
ExpectedByJobs(tbl, day) ==
    {i \in 1..Len(tbl) :
        /\ OnDay(tbl[i], day) /\ HasProfile(tbl[i])
        /\ Cardinality(JobsOf(tbl, tbl[i].posted_by_profile, day)) > 2}

\* The jobs of the posters with more than 2 distinct titles on the day.
ExpectedByTitles(tbl, day) ==
    {i \in 1..Len(tbl) :
        /\ OnDay(tbl[i], day) /\ HasProfile(tbl[i])
        /\ Cardinality(TitlesOf(tbl, tbl[i].posted_by_profile, day)) > 2}

\* The list holds exactly the rows at the positions idxs, each as often as
\* it occurs there.
SameRows(list, tbl, idxs) ==
    /\ Len(list) = Cardinality(idxs)
    /\ \A i \in idxs :
          Cardinality({k \in 1..Len(list) : list[k] = RowDict(tbl[i])})
              = Cardinality({j \in idxs : RowDict(tbl[j]) = RowDict(tbl[i])})

\* The list is in ascending order of poster profile, then title.
OrderedByProfileTitle(list) ==
    \A i, j \in 1..Len(list) :
        i < j =>
            \/ TextRank(list[i].posted_by_profile) < TextRank(list[j].posted_by_profile)
            \/ /\ list[i].posted_by_profile = list[j].posted_by_profile
               /\ TextRank(list[i].title) <= TextRank(list[j].title)

DayOf(text) == CHOOSE d \in 1..Len(DateText) : DateText[d] = text

\* C8: get_linkedin_job_postings(target_date) returns the qualifying rows of
\* the target date that was passed (of the current date when none was).
C8_TargetDateSelectsRows ==
    pc = "returned" =>
        SameRows(job_postings, table, ExpectedByTitles(table, DayOf(target_date)))

\* The placeholder of each field in the HTML report and in the spreadsheet,
\* and the spreadsheet column of each field.
HtmlPlaceholder(field) ==
    IF field \in {"url", "company_url", "posted_by_profile"} THEN "#" ELSE "N/A"
ExcelPlaceholder(field) ==
    IF field \in {"url", "company_url", "posted_by_profile"} THEN "" ELSE "N/A"
ExcelColumnOf(field) ==
    CASE field = "company" -> "Company"
      [] field = "title" -> "Job Title"
      [] field = "poster_full_name" -> "Posted By"
      [] field = "posted_by_profile" -> "Profile URL"
      [] field = "url" -> "Job URL"
      [] field = "company_url" -> "Company URL"
      [] field = "source" -> "Source"

\* C9: for every record, a field that is missing, null or empty is rendered
\* as its placeholder in the HTML row and in the spreadsheet row, and a field
\* that is present and non-empty is rendered unchanged; one row is built per
\* record.
C9_PlaceholdersForAbsentFields ==
    pc = "formatted" =>
        /\ Len(html.content.rows) = 1 /\ Len(excel_file.data) = 1
        /\ \A field \in Columns :
              LET v == job_postings[1][field]
                  absent == v \in {Missing, NULL, ""}
              IN /\ html.content.rows[1][field] =
                        IF absent THEN HtmlPlaceholder(field) ELSE v
                 /\ excel_file.data[1][ExcelColumnOf(field)] =
                        IF absent THEN ExcelPlaceholder(field) ELSE v

C9_Witness ==
    /\ pc = "formatted"
    /\ job_postings[1].company = Missing
    /\ job_postings[1].url = NULL
    /\ job_postings[1].posted_by_profile = ""
    /\ job_postings[1].title = "v"
    /\ html.content.rows[1].company = "N/A"
    /\ html.content.rows[1].title = "v"

\* The payload of this invocation carries the spreadsheet as an attachment.
Attached == payload # NoValue /\ payload.attachments # <<>>

\* C10: an attachment file larger than 4MB (4 * 1024 * 1024 bytes) makes
\* send_mail_via_graph record a warning and go on to the send-mail request
\* with the attachment included; the size never turns the send into an
\* error, and a file of at most 4MB records no warning.
C10_OversizeWarnsAndSends ==
    (HandlerRuns /\ Attached) =>
        /\ ("size_warning" \in log) <=> (excel_file.size > 4 * 1024 * 1024)
        /\ pc \in {"post", "respond", "done"} \/ FailedAt("send")
        /\ pc # "post" => /\ Len(sent) = 1
                          /\ sent[1].message.attachments = payload.attachments
                          /\ Len(sent[1].message.attachments) = 1

C10_Witness ==
    /\ HandlerRuns /\ pc = "done" /\ Attached
    /\ excel_file.size = 4 * 1024 * 1024 + 1
    /\ "size_warning" \in log
    /\ Len(sent) = 1 /\ Len(sent[1].message.attachments) = 1
    /\ IsSuccess /\ response.email_sent

\* C11: a call of send_mail_via_graph with an attachment path either sends a
\* message with exactly one attachment, the base64 encoding of the file's
\* bytes with the spreadsheet MIME type, or fails with an error and sends
\* nothing; a file that does not exist or cannot be read is an error, never
\* an email without the attachment.
C11_AttachmentOrError ==
    HandlerRuns =>
        /\ \A i \in 1..Len(sent) :
              /\ Len(sent[i].message.attachments) = 1
              /\ sent[i].message.attachments[1].contentBytes = B64(excel_file.data)
              /\ sent[i].message.attachments[1].contentType = SPREADSHEET_MIME
        /\ (log \cap {"attachment_not_found", "error_adding_attachment"}) # {}
              => pc = "error" /\ IsError /\ sent = <<>>

\* C12: a success response with email_sent = true is returned only when the
\* send-mail request of the same invocation returned success, with
\* jobs_count the number of rows the query returned and email_sent_to the
\* configured recipient; when the database, token or send stage fails the
\* caller receives an error and never a success response.
C12_SuccessOnlyAfterSend ==
    HandlerRuns =>
        /\ (IsSuccess /\ response.email_sent) =>
              /\ pc = "done"
              /\ Len(sent) = 1 /\ attempts.send = 1
              /\ failed = {}
              /\ job_postings # <<>>
              /\ response.jobs_count = Len(job_postings)
              /\ response.jobs = job_postings
              /\ response.email_sent_to = TEST_EMAIL_RECIPIENT
        /\ (failed \cap {"connect", "query", "token", "send"}) # {} =>
              /\ pc = "error"
              /\ IsError
              /\ response.status_code = 500
              /\ response.stage \in failed

C12_Witness ==
    /\ HandlerRuns /\ pc = "done" /\ IsSuccess /\ response.email_sent
    /\ response.jobs_count = 3 /\ Len(job_postings) = 3
    /\ response.email_sent_to = TEST_EMAIL_RECIPIENT
    /\ Len(sent) = 1 /\ failed = {}

====
